---- MODULE Spec2Model ----
(***************************************************************************)
(* deepsize: the DeepSizeOf implementations for external crates            *)
(* (src/src/external_impls.rs) together with the parts of the crate root   *)
(* they call (Context, the Arc / String / Vec implementations, the         *)
(* known_deep_size! macro and the provided method deep_size_of).           *)
(*                                                                         *)
(* A value is a record tagged by `kind`.  Shared (reference counted)       *)
(* allocations live in `allocs`, indexed by their address; an Arc value    *)
(* holds such an address.  Every implementation is an operator             *)
(* (self, context) -> [size, ctx, panicked]: the returned usize, the       *)
(* Context as the call leaves it, and whether the call unwound.            *)
(***************************************************************************)
EXTENDS Integers, Sequences, FiniteSets, TLC

VARIABLES
    root,       \* the value the caller measures
    allocs,     \* address -> [size, val]: the Arc-owned allocations
    build,      \* size_of of BTreeMap / IndexMap / serde_json::Map in this build
    context,    \* a Context the caller keeps and passes to deep_size_of_children
    result,     \* what the last measurement call returned
    removed,    \* elements removed from root since the last measurement
    stack,      \* call stack of the measurement in progress (frames)
    tctx,       \* the Context of the measurement in progress
    tphase,     \* "idle" | "running" | "returned" | "panicked" | "overflow"
    tsize       \* the number the measurement in progress returned

vars == <<root, allocs, build, context, result, removed, stack, tctx, tphase, tsize>>

----------------------------------------------------------------------------
(* Bounds of the model *)

\* largest length of a container, and largest capacity where any is possible
MaxCap == 2
\* number of Arc-owned allocations
NumAllocs == 2
\* nested calls the stack holds before it overflows
StackLimit == 12

Addrs == 1..NumAllocs

----------------------------------------------------------------------------
(* Arithmetic helpers *)

Max(a, b) == IF a >= b THEN a ELSE b

RoundUp(n, a) == ((n + a - 1) \div a) * a

RECURSIVE SumSeq(_)
SumSeq(s) == IF s = <<>> THEN 0 ELSE Head(s) + SumSeq(Tail(s))

RECURSIVE Flatten(_)
Flatten(ss) == IF ss = <<>> THEN <<>> ELSE Head(ss) \o Flatten(Tail(ss))

\* usize::saturating_mul; usize::MAX (2^64 - 1) lies above every product the
\* bounded lengths of this model can form, so the product never saturates here.
saturating_mul(a, b) == a * b

----------------------------------------------------------------------------
(* core::mem::size_of on a 64-bit target.  A type is T(name), a tuple      *)
(* Tuple(<<t1, .., tn>>), an array Array(t, n) or the enum MockEntry(t).    *)

T(name)      == [ctor |-> name, args |-> <<>>, n |-> 0]
Tuple(ts)    == [ctor |-> "tuple", args |-> ts, n |-> 0]
Array(t, n)  == [ctor |-> "array", args |-> <<t>>, n |-> n]
MockEntry(t) == [ctor |-> "MockEntry", args |-> <<t>>, n |-> 0]

BTREE_B == 6
BTREE_MAX == 2 * BTREE_B - 1
BTREE_MIN == BTREE_B - 1

RECURSIVE layout(_), SumSizes(_, _), MaxAlign(_, _), AnyNiche(_, _)
\* the sizes and the largest alignment of a tuple's fields from the i-th on,
\* and whether one of them has a niche
SumSizes(ts, i) == IF i > Len(ts) THEN 0 ELSE layout(ts[i]).size + SumSizes(ts, i + 1)
MaxAlign(ts, i) == IF i > Len(ts) THEN 1 ELSE Max(layout(ts[i]).align, MaxAlign(ts, i + 1))
AnyNiche(ts, i) == i <= Len(ts) /\ (layout(ts[i]).niche \/ AnyNiche(ts, i + 1))
\* size and alignment of a type, and whether it has a niche: bit patterns no
\* value of the type uses, in which an enclosing enum can keep its tag
layout(ty) ==
    CASE ty.ctor = "unit"       -> [size |-> 0,  align |-> 1, niche |-> FALSE]
      [] ty.ctor = "u16"        -> [size |-> 2,  align |-> 2, niche |-> FALSE]
      [] ty.ctor = "u32"        -> [size |-> 4,  align |-> 4, niche |-> FALSE]
      [] ty.ctor = "usize"      -> [size |-> 8,  align |-> 8, niche |-> FALSE]
      \* KeyData { idx: u32, version: NonZeroU32 }
      [] ty.ctor = "DefaultKey" -> [size |-> 8,  align |-> 4, niche |-> TRUE]
      \* a non-null pointer
      [] ty.ctor = "Arc"        -> [size |-> 8,  align |-> 8, niche |-> TRUE]
      \* the capacity word of a Vec never uses its top bit
      [] ty.ctor = "String"     -> [size |-> 24, align |-> 8, niche |-> TRUE]
      \* SmallVec<[u32; 1]>: capacity word and the inline / heap union
      [] ty.ctor = "SmallVec"   -> [size |-> 24, align |-> 8, niche |-> FALSE]
      [] ty.ctor = "BTreeMap"   -> [size |-> build.BTreeMap, align |-> 8, niche |-> FALSE]
      \* holds a Vec of its entries
      [] ty.ctor = "IndexMap"   -> [size |-> build.IndexMap, align |-> 8, niche |-> TRUE]
      [] ty.ctor = "Map"        ->
            [size |-> build.Map, align |-> 8, niche |-> build.Map # build.BTreeMap]
      \* enum Value: when the Map is larger than the 24-byte String and Vec, the
      \* tag is kept in the Map's niche and the enum is as large as the Map;
      \* otherwise a tag word precedes the 24-byte payload
      [] ty.ctor = "Value"      ->
            [size  |-> IF build.Map > 24 THEN build.Map ELSE 8 + 24,
             align |-> 8, niche |-> TRUE]
      [] ty.ctor = "tuple" ->
            \* fields ordered by decreasing alignment leave no inner padding
            LET al == MaxAlign(ty.args, 1)
            IN  [size  |-> RoundUp(SumSizes(ty.args, 1), al), align |-> al,
                 niche |-> AnyNiche(ty.args, 1)]
      [] ty.ctor = "array" ->
            LET el == layout(ty.args[1])
            IN  [size  |-> el.size * ty.n, align |-> el.align,
                 niche |-> el.niche /\ ty.n > 0]
      [] ty.ctor = "MockEntry" ->
            \* enum MockEntry<T> { _Vacant(usize), _Occupied(T) }: when T has a niche
            \* and room for the usize beside the word that holds it, the tag is
            \* kept in the niche and the enum is as large as T; otherwise it is a
            \* tag and the larger payload
            LET el == layout(ty.args[1])
                al == Max(8, el.align)
            IN  [size  |-> IF el.niche /\ el.size >= 16 THEN RoundUp(el.size, al)
                           ELSE RoundUp(1 + Max(8, el.size), al),
                 align |-> al, niche |-> TRUE]

size_of(ty) == layout(ty).size

----------------------------------------------------------------------------
(* Values *)

Known(ty, bits) == [kind |-> "Known", ty |-> ty, bits |-> bits]
Addr(bits)      == [kind |-> "Addr", bits |-> bits]
Str(cap)        == [kind |-> "String", capacity |-> cap]
Arc(a)          == [kind |-> "Arc", ptr |-> a]

\* a container of `kind` over key / element types tyK, tyV
Cont(kind, tyK, tyV, cap, inline, entries) ==
    [kind |-> kind, tyK |-> tyK, tyV |-> tyV, capacity |-> cap,
     inline |-> inline, entries |-> entries]

JValue(tag, x) == [kind |-> "Value", tag |-> tag, x |-> x]
JMap(cap, entries) ==
    [kind |-> "JsonMap", capacity |-> cap, entries |-> entries]

\* types registered with known_deep_size!(0; ..) in external_impls.rs
KnownExternal ==
    {"KeyData", "DefaultKey", "ArrayString",
     "NaiveDate", "NaiveTime", "NaiveDateTime", "IsoWeek", "Duration", "Month",
     "Weekday", "FixedOffset", "Local", "Utc", "DateTime", "Date",
     "TcpListener", "TcpStream", "UdpSocket",
     "UnixDatagram", "UnixListener", "UnixStream",
     "Number"}

\* primitives the crate root registers the same way
KnownPrimitive == {"bool", "u32", "unit"}

----------------------------------------------------------------------------
(* Context (crate root): the set of Arc addresses already counted *)

Context_new == {}
contains_arc(ctx, arc) == arc.ptr \in ctx
add_arc(ctx, arc) == ctx \cup {arc.ptr}

----------------------------------------------------------------------------
(* Results of a call *)

Ret(n, ctx) == [size |-> n, ctx |-> ctx, panicked |-> FALSE]
Unwind(ctx) == [size |-> 0, ctx |-> ctx, panicked |-> TRUE]
\* r + n, the `+` of a usize expression whose left operand is the call r
Plus(r, n)  == IF r.panicked THEN r ELSE [r EXCEPT !.size = r.size + n]

----------------------------------------------------------------------------
(* The implementations *)

RECURSIVE deep_size_of_children(_, _)

\* self.iter().fold(0, |sum, x| sum + x.deep_size_of_children(context)) over
\* the values `vals` in iteration order, continuing from the partial sum acc
RECURSIVE fold(_, _)
fold(vals, acc) ==
    IF vals = <<>> \/ acc.panicked THEN acc
    ELSE LET r == deep_size_of_children(Head(vals), acc.ctx)
         IN  fold(Tail(vals), IF r.panicked THEN r ELSE Ret(acc.size + r.size, r.ctx))

\* known_deep_size!(size; T..): fn deep_size_of_children(&self, _: &mut Context) { size }
known_deep_size(size, self, ctx) == Ret(size, ctx)

\* actix::Addr<T>
\* faulty variant: the address reports the channel it points at
Addr_counts_channel(self, ctx) == Ret(8 + self.bits, ctx)
Addr_deep_size_of_children(self, ctx) == Ret(0, ctx)

\* String: the heap buffer
String_deep_size_of_children(self, ctx) == Ret(self.capacity, ctx)

\* Arc<T>: counted by the first visit only
Arc_deep_size_of_children(self, ctx) ==
    IF contains_arc(ctx, self) THEN Ret(0, ctx)
    ELSE LET ctx1 == add_arc(ctx, self)
             val  == allocs[self.ptr]
         IN  Plus(deep_size_of_children(val.val, ctx1), val.size)

\* Vec<T>
Vec_buffer(self) == self.capacity * size_of(T(self.tyV))
Vec_deep_size_of_children(self, ctx) ==
    Plus(fold(Flatten(self.entries), Ret(0, ctx)), Vec_buffer(self))

\* slotmap::SlotMap<K, V>
slotmap_buffer(self) == self.capacity * size_of(Tuple(<<T("u32"), T(self.tyV)>>))
slotmap_deep_size_of_children(self, ctx) ==
    Plus(fold(Flatten(self.entries), Ret(0, ctx)), slotmap_buffer(self))

\* slab::Slab<T>
\* faulty variant: every element is measured with the Context as the call received it
slab_fresh_context(self, ctx) ==
    LET es == Flatten(self.entries)
    IN  Ret(self.capacity * size_of(MockEntry(T(self.tyV)))
              + SumSeq([i \in 1..Len(es) |-> deep_size_of_children(es[i], ctx).size]),
            ctx \cup UNION {deep_size_of_children(es[i], ctx).ctx : i \in 1..Len(es)})
\* faulty variant: the buffer is sized by the number of live entries
slab_len_size(self) == Len(self.entries) * size_of(MockEntry(T(self.tyV)))
slab_capacity_size(self) == self.capacity * size_of(MockEntry(T(self.tyV)))
slab_deep_size_of_children(self, ctx) ==
    LET capacity_size == slab_capacity_size(self)
        owned_size    == fold(Flatten(self.entries), Ret(0, ctx))
    IN  IF owned_size.panicked THEN owned_size
        ELSE Ret(capacity_size + owned_size.size, owned_size.ctx)

\* arrayvec::ArrayVec<A>
\* faulty variant: the closure returns the element's size and drops the running sum
arrayvec_last_only(self, ctx) ==
    LET all == fold(Flatten(self.entries), Ret(0, ctx))
        es  == Flatten(self.entries)
    IN  IF es = <<>> \/ all.panicked THEN all
        ELSE Ret(deep_size_of_children(es[Len(es)],
                     fold(SubSeq(es, 1, Len(es) - 1), Ret(0, ctx)).ctx).size, all.ctx)
arrayvec_deep_size_of_children(self, ctx) ==
    fold(Flatten(self.entries), Ret(0, ctx))

\* smallvec::SmallVec<A>
spilled(self) == self.capacity > self.inline
smallvec_buffer(self) ==
    IF spilled(self) THEN self.capacity * size_of(T(self.tyV)) ELSE 0
\* faulty variant: an inline vector reports nothing at all
smallvec_inline_zero(self, ctx) ==
    LET child_size == fold(Flatten(self.entries), Ret(0, ctx))
    IN  IF spilled(self)
        THEN Plus(child_size, self.capacity * size_of(T(self.tyV)))
        ELSE Ret(0, child_size.ctx)
smallvec_deep_size_of_children(self, ctx) ==
    LET child_size == fold(Flatten(self.entries), Ret(0, ctx))
    IN  IF spilled(self)
        THEN Plus(child_size, self.capacity * size_of(T(self.tyV)))
        ELSE child_size

\* hashbrown::HashMap<K, V, S>
hashmap_buffer(self) == self.capacity * size_of(Tuple(<<T(self.tyK), T(self.tyV)>>))
hashmap_deep_size_of_children(self, ctx) ==
    Plus(fold(Flatten(self.entries), Ret(0, ctx)), hashmap_buffer(self))

\* hashbrown::HashSet<K, S>
hashset_buffer(self) == self.capacity * size_of(T(self.tyK))
hashset_deep_size_of_children(self, ctx) ==
    Plus(fold(Flatten(self.entries), Ret(0, ctx)), hashset_buffer(self))

\* indexmap::IndexMap<K, V, S>
indexmap_map_size(self) ==
    self.capacity * (size_of(Tuple(<<T("usize"), T(self.tyK), T(self.tyV)>>)) + size_of(T("usize")))
indexmap_deep_size_of_children(self, ctx) ==
    LET child_sizes == fold(Flatten(self.entries), Ret(0, ctx))
        map_size    == indexmap_map_size(self)
    IN  Plus(child_sizes, map_size)

\* indexmap::IndexSet<K, S>
indexset_map_size(self) ==
    self.capacity * (size_of(Tuple(<<T("usize"), T(self.tyK), T("unit")>>)) + size_of(T("usize")))
indexset_deep_size_of_children(self, ctx) ==
    LET child_sizes == fold(Flatten(self.entries), Ret(0, ctx))
        map_size    == indexset_map_size(self)
    IN  Plus(child_sizes, map_size)

\* serde_json::Value
\* faulty variant: the String arm reports nothing
Value_string_zero(self, ctx) ==
    IF self.tag \in {"Null", "String"} THEN Ret(0, ctx)
    ELSE deep_size_of_children(self.x, ctx)
Value_deep_size_of_children(self, ctx) ==
    CASE self.tag = "Null"   -> Ret(0, ctx)
      [] self.tag = "Bool"   -> deep_size_of_children(self.x, ctx)
      [] self.tag = "Number" -> deep_size_of_children(self.x, ctx)
      [] self.tag = "String" -> deep_size_of_children(self.x, ctx)
      [] self.tag = "Array"  -> deep_size_of_children(self.x, ctx)
      [] self.tag = "Object" -> deep_size_of_children(self.x, ctx)

\* serde_json::Map<String, Value>: the assert_ne! on the two candidate sizes
Map_assert_ne == size_of(T("BTreeMap")) # size_of(T("IndexMap"))
\* faulty variant: the map is taken for a BTreeMap whenever it is not sized like an IndexMap
Map_is_not_index == size_of(T("IndexMap")) # size_of(T("Map"))
\* which candidate the map is taken to be
Map_is_btree == size_of(T("BTreeMap")) = size_of(T("Map"))
Map_btree_overhead ==
    size_of(Tuple(<<T("usize"), T("u16"), T("u16"),
                    Array(Tuple(<<T("String"), T("Value")>>), BTREE_MAX),
                    Array(T("usize"), BTREE_B)>>))
Map_btree_size(self) ==
    (Len(self.entries) * Map_btree_overhead * 2) \div (BTREE_MAX + BTREE_MIN)
\* faulty variant: the estimate is len() itself, not twice len()
Map_index_len_size(self) ==
    Len(self.entries) * (size_of(Tuple(<<T("usize"), T("String"), T("Value")>>)) + size_of(T("usize")))
Map_index_size(self) ==
    LET estimated_cap == saturating_mul(Len(self.entries), 2)
    IN  estimated_cap * (size_of(Tuple(<<T("usize"), T("String"), T("Value")>>)) + size_of(T("usize")))
Map_deep_size_of_children(self, ctx) ==
    IF ~Map_assert_ne THEN Unwind(ctx)
    ELSE IF Map_is_btree
         THEN LET element_size == fold(Flatten(self.entries), Ret(0, ctx))
              IN  Plus(element_size, Map_btree_size(self))
         ELSE LET child_sizes == fold(Flatten(self.entries), Ret(0, ctx))
                  map_size    == Map_index_size(self)
              IN  Plus(child_sizes, map_size)

\* the trait method, dispatched on the value's type
deep_size_of_children(self, ctx) ==
    CASE self.kind = "Known"    -> known_deep_size(0, self, ctx)
      [] self.kind = "Addr"     -> Addr_deep_size_of_children(self, ctx)
      [] self.kind = "String"   -> String_deep_size_of_children(self, ctx)
      [] self.kind = "Arc"      -> Arc_deep_size_of_children(self, ctx)
      [] self.kind = "Vec"      -> Vec_deep_size_of_children(self, ctx)
      [] self.kind = "SlotMap"  -> slotmap_deep_size_of_children(self, ctx)
      [] self.kind = "Slab"     -> slab_deep_size_of_children(self, ctx)
      [] self.kind = "ArrayVec" -> arrayvec_deep_size_of_children(self, ctx)
      [] self.kind = "SmallVec" -> smallvec_deep_size_of_children(self, ctx)
      [] self.kind = "HashMap"  -> hashmap_deep_size_of_children(self, ctx)
      [] self.kind = "HashSet"  -> hashset_deep_size_of_children(self, ctx)
      [] self.kind = "IndexMap" -> indexmap_deep_size_of_children(self, ctx)
      [] self.kind = "IndexSet" -> indexset_deep_size_of_children(self, ctx)
      [] self.kind = "Value"    -> Value_deep_size_of_children(self, ctx)
      [] self.kind = "JsonMap"  -> Map_deep_size_of_children(self, ctx)

----------------------------------------------------------------------------
(* The provided method and the caller's view *)

\* core::mem::size_of_val(self): the value's own fixed footprint (64-bit target)
size_of_val(self) ==
    CASE self.kind = "Known"    -> IF self.ty \in {"unit", "Local", "Utc"} THEN 0
                                   ELSE IF self.ty \in {"bool", "Month", "Weekday"} THEN 1
                                   ELSE IF self.ty \in {"u32", "NaiveDate", "IsoWeek", "FixedOffset"} THEN 4
                                   ELSE IF self.ty \in {"NaiveDateTime", "DateTime", "Date"} THEN 12
                                   ELSE IF self.ty = "Duration" THEN 16
                                   ELSE IF self.ty = "ArrayString" THEN 17
                                   ELSE IF self.ty = "Number" THEN 16
                                   ELSE 8
      [] self.kind = "Addr"     -> 16
      [] self.kind = "String"   -> size_of(T("String"))
      [] self.kind = "Arc"      -> size_of(T("Arc"))
      [] self.kind = "Vec"      -> 24
      [] self.kind = "SlotMap"  -> 32
      [] self.kind = "Slab"     -> 40
      [] self.kind = "ArrayVec" -> 8 + self.capacity * size_of(T(self.tyV))
      [] self.kind = "SmallVec" -> 8 + Max(16, self.inline * size_of(T(self.tyV)))
      [] self.kind = "HashMap"  -> 48
      [] self.kind = "HashSet"  -> 48
      [] self.kind = "IndexMap" -> size_of(T("IndexMap"))
      [] self.kind = "IndexSet" -> size_of(T("IndexMap"))
      [] self.kind = "Value"    -> size_of(T("Value"))
      [] self.kind = "JsonMap"  -> size_of(T("Map"))

\* faulty variant: the children are measured in the Context the caller keeps
deep_size_of_shared(self) ==
    Plus(deep_size_of_children(self, context), size_of_val(self))
\* DeepSizeOf::deep_size_of: own footprint plus children, in a Context of its own
deep_size_of(self) ==
    Plus(deep_size_of_children(self, Context_new), size_of_val(self))

----------------------------------------------------------------------------
(* The values the model measures *)

ContainerKinds ==
    {"SlotMap", "Slab", "ArrayVec", "SmallVec", "HashMap", "HashSet",
     "IndexMap", "IndexSet"}
MapKinds == {"HashMap", "IndexMap"}
SetKinds == {"HashSet", "IndexSet"}

\* values of an element type
ValuesOf(ty) ==
    CASE ty = "String"   -> {Str(0), Str(5)}
      [] ty = "Arc"      -> {Arc(a) : a \in Addrs}
      \* SmallVec<[u32; 1]>, empty: still inline, or spilled with room for 3
      [] ty = "SmallVec" -> {Cont("SmallVec", "unit", "u32", c, 1, <<>>) : c \in {1, 3}}

\* the first of the keys 1, 2, .. that no entry of c uses
FreshKey(c) ==
    LET used == {IF c.entries[i][1].kind = "String" THEN c.entries[i][1].capacity
                 ELSE c.entries[i][1].bits : i \in 1..Len(c.entries)}
    IN  CHOOSE k \in 1..(Len(c.entries) + 1) :
            k \notin used /\ \A j \in 1..(k - 1) : j \in used

\* what one entry of a container of this type can be: the values iter() yields;
\* keys are distinct, the key k of a map being a String of capacity k
EntryChoices(c) ==
    CASE c.kind = "SlotMap"  -> {<<Known("DefaultKey", FreshKey(c)), v>> : v \in ValuesOf(c.tyV)}
      [] c.kind \in MapKinds -> {<<Str(FreshKey(c)), v>> : v \in ValuesOf(c.tyV)}
      [] c.kind \in SetKinds ->
            {<<k>> : k \in {x \in ValuesOf(c.tyK) :
                                \A i \in 1..Len(c.entries) : c.entries[i] # <<x>>}}
      [] OTHER               -> {<<v>> : v \in ValuesOf(c.tyV)}

\* what hashbrown's capacity() reports: 0 for a table never allocated, then
\* 7/8 of a power-of-two number of buckets (3, 7, 14, ..); the two smallest
HashCapacities == {0, 3}

\* freshly built containers: every implementation over two element types,
\* the ones C1 names (slab, small vector, hash map, index map) over Arcs
EmptyContainers ==
    {Cont("SlotMap", "DefaultKey", t, c, 0, <<>>) : t \in {"String", "SmallVec"}, c \in 0..MaxCap}
    \cup {Cont("Slab", "unit", t, c, 0, <<>>) : t \in {"Arc", "SmallVec"}, c \in 0..MaxCap}
    \cup {Cont("ArrayVec", "unit", t, MaxCap, MaxCap, <<>>) : t \in {"String", "SmallVec"}}
    \cup {Cont("SmallVec", "unit", t, c, 1, <<>>) : t \in {"Arc", "String"}, c \in 1..MaxCap}
    \cup {Cont("HashMap", "String", "Arc", c, 0, <<>>) : c \in HashCapacities}
    \cup {Cont("IndexMap", "String", "Arc", c, 0, <<>>) : c \in 0..MaxCap}
    \cup {Cont("HashSet", "String", "unit", c, 0, <<>>) : c \in HashCapacities}
    \cup {Cont("IndexSet", "String", "unit", c, 0, <<>>) : c \in 0..MaxCap}

\* serde_json values: scalars, one nested array and one nested object
JsonAtoms ==
    {JValue("Null", Known("unit", 0)),
     JValue("Bool", Known("bool", 1)),
     JValue("Number", Known("Number", 7)),
     JValue("String", Str(5)),
     JValue("Array", Cont("Vec", "unit", "Value", 1, 0, << <<JValue("String", Str(3))>> >>)),
     JValue("Object", JMap(1, << <<Str(4), JValue("Null", Known("unit", 0))>> >>))}

\* the values put into arrays and objects
JsonElems == {x \in JsonAtoms : x.tag \in {"Number", "String", "Array", "Object"}}

EmptyJson ==
    JsonAtoms
    \cup {JValue("Array", Cont("Vec", "unit", "Value", c, 0, <<>>)) : c \in 0..MaxCap}
    \cup {JValue("Object", JMap(c, <<>>)) : c \in 0..MaxCap}

\* values of the types registered as owning nothing
KnownValues ==
    {Known(ty, b) : ty \in KnownExternal, b \in {0, 1}} \cup {Addr(b) : b \in {0, 1}}

\* the allocations: address a holds a node of size 8 * (a + 1) whose links
\* (an ArrayVec of Arcs) are one of: none, a chain, a ring, a self loop
Node(a, links) ==
    [size |-> 8 * (a + 1),
     val  |-> Cont("ArrayVec", "unit", "Arc", 1, 1, [i \in 1..Len(links) |-> <<Arc(links[i])>>])]
Heaps ==
    {[a \in Addrs |-> Node(a, <<>>)],
     [a \in Addrs |-> Node(a, IF a < NumAllocs THEN <<a + 1>> ELSE <<>>)],
     [a \in Addrs |-> Node(a, <<(a % NumAllocs) + 1>>)],
     [a \in Addrs |-> Node(a, IF a = 1 THEN <<1>> ELSE <<>>)]}
NoLinks == [a \in Addrs |-> Node(a, <<>>)]

\* size_of of (BTreeMap, IndexMap, serde_json::Map) in a build
Builds ==
    {[BTreeMap |-> b, IndexMap |-> i, Map |-> m] :
        b \in {24, 72}, i \in {72}, m \in {24, 72, 80}}
DefaultBuild == [BTreeMap |-> 24, IndexMap |-> 72, Map |-> 24]

\* the container whose entries the caller edits: root, or the one inside a Value
IsJson(v) == v.kind = "Value"
Editable(v) == IF IsJson(v) THEN v.tag \in {"Array", "Object"} ELSE v.kind \in ContainerKinds
Inner(v) == IF IsJson(v) THEN v.x ELSE v
WithEntries(v, es) ==
    IF IsJson(v) THEN [v EXCEPT !.x.entries = es] ELSE [v EXCEPT !.entries = es]
InsertChoices(v) ==
    IF ~Editable(v) THEN {}
    ELSE IF IsJson(v)
         THEN IF v.tag = "Array" THEN {<<x>> : x \in JsonElems}
              ELSE {<<Str(FreshKey(v.x)), x>> : x \in JsonElems}
         ELSE EntryChoices(v)

\* the values one entry list holds, in iteration order
Elements(v) ==
    IF Editable(v)
    THEN {Flatten(Inner(v).entries)[i] : i \in 1..Len(Flatten(Inner(v).entries))}
    ELSE {}
Targets == {root} \cup Elements(root)

RemoveAt(s, i) == [j \in 1..(Len(s) - 1) |-> IF j < i THEN s[j] ELSE s[j + 1]]

----------------------------------------------------------------------------
(* The state machine of the caller *)

None == Known("unit", 0)
NoResult ==
    [op |-> "none", target |-> None, ctx0 |-> {}, ctx1 |-> {}, size |-> 0,
     panicked |-> FALSE]
Outcome(op, t, c0, r) ==
    [op |-> op, target |-> t, ctx0 |-> c0, ctx1 |-> r.ctx, size |-> r.size,
     panicked |-> r.panicked]

Idle == /\ stack = <<>> /\ tctx = {} /\ tphase = "idle" /\ tsize = 0

Init ==
    /\ \/ /\ root \in {c \in EmptyContainers : "Arc" \in {c.tyK, c.tyV}}
          /\ allocs \in Heaps
          /\ build = DefaultBuild
          /\ context = {}
       \/ /\ root \in {c \in EmptyContainers : "Arc" \notin {c.tyK, c.tyV}}
          /\ allocs = NoLinks
          /\ build = DefaultBuild
          /\ context = {}
       \/ /\ root \in EmptyJson
          /\ allocs = NoLinks
          /\ build \in Builds
          /\ context = {}
       \/ /\ root \in KnownValues
          /\ allocs = NoLinks
          /\ build = DefaultBuild
          \* a Context that measurements of other values have filled
          /\ context \in SUBSET Addrs
    /\ result = NoResult
    /\ removed = 0
    /\ Idle

\* insert / push one entry where the capacity allows it without growing
Insert(e) ==
    /\ Editable(root)
    /\ Len(Inner(root).entries) < Inner(root).capacity
    /\ Len(Inner(root).entries) < MaxCap
    /\ root' = WithEntries(root, Append(Inner(root).entries, e))
    /\ result' = NoResult
    /\ removed' = 0
    /\ UNCHANGED <<allocs, build, context, stack, tctx, tphase, tsize>>

\* remove the i-th entry; the capacity stays as it is
Remove(i) ==
    /\ Editable(root)
    /\ i \in 1..Len(Inner(root).entries)
    /\ root' = WithEntries(root, RemoveAt(Inner(root).entries, i))
    /\ removed' = removed + 1
    /\ UNCHANGED <<allocs, build, context, result, stack, tctx, tphase, tsize>>

\* t.deep_size_of()
DeepSizeOf(t) ==
    /\ result' = Outcome("deep_size_of", t, {}, deep_size_of(t))
    /\ removed' = 0
    /\ UNCHANGED <<root, allocs, build, context, stack, tctx, tphase, tsize>>

\* t.deep_size_of_children(&mut context), with the Context the caller keeps
DeepSizeOfChildren(t) ==
    LET r == deep_size_of_children(t, context)
    IN  /\ result' = Outcome("children", t, context, r)
        /\ context' = r.ctx
        /\ removed' = 0
        /\ UNCHANGED <<root, allocs, build, stack, tctx, tphase, tsize>>

\* context = Context::new()
NewContext ==
    /\ context # {}
    /\ context' = Context_new
    /\ result' = NoResult
    /\ removed' = 0
    /\ UNCHANGED <<root, allocs, build, stack, tctx, tphase, tsize>>

Next ==
    \/ \E e \in InsertChoices(root) : Insert(e)
    \/ \E i \in 1..MaxCap : Remove(i)
    \/ \E t \in Targets : DeepSizeOf(t)
    \/ \E t \in Targets : DeepSizeOfChildren(t)
    \/ NewContext

Spec == Init /\ [][Next]_vars

----------------------------------------------------------------------------
(* One measurement, call by call: the recursion of deep_size_of(root) with   *)
(* its call stack.  A frame is a call in progress: the value it measures,    *)
(* the position of the next child it recurses into, and its running sum.     *)

\* the term an implementation adds to the sum of its children
buffer(self) ==
    CASE self.kind = "Vec"      -> Vec_buffer(self)
      [] self.kind = "SlotMap"  -> slotmap_buffer(self)
      [] self.kind = "Slab"     -> slab_capacity_size(self)
      [] self.kind = "ArrayVec" -> 0
      [] self.kind = "SmallVec" -> smallvec_buffer(self)
      [] self.kind = "HashMap"  -> hashmap_buffer(self)
      [] self.kind = "HashSet"  -> hashset_buffer(self)
      [] self.kind = "IndexMap" -> indexmap_map_size(self)
      [] self.kind = "IndexSet" -> indexset_map_size(self)
      [] self.kind = "JsonMap"  -> IF Map_is_btree THEN Map_btree_size(self)
                                   ELSE Map_index_size(self)

HasEntries(v) == v.kind \in ContainerKinds \cup {"Vec", "JsonMap"}

\* the calls a call makes, in order
callees(self) ==
    CASE self.kind = "Top"   -> <<self.x>>
      [] self.kind = "Arc"   -> <<allocs[self.ptr].val>>
      [] self.kind = "Value" -> IF self.tag = "Null" THEN <<>> ELSE <<self.x>>
      [] HasEntries(self)    -> Flatten(self.entries)
      [] OTHER               -> <<>>

\* the Context a call hands to the calls it makes: the one it was given
\* faulty variant: every child is measured with a Context of its own
context_per_child(self, ctx) == Context_new
context_for_children(self, ctx) == ctx

\* what a call adds to the sum of its callees' results
own(self) ==
    CASE self.kind = "Top"    -> size_of_val(self.x)
      [] self.kind = "Arc"    -> allocs[self.ptr].size
      [] self.kind = "Value"  -> 0
      [] self.kind = "Known"  -> known_deep_size(0, self, tctx).size
      [] self.kind = "Addr"   -> Addr_deep_size_of_children(self, tctx).size
      [] self.kind = "String" -> String_deep_size_of_children(self, tctx).size
      [] HasEntries(self)     -> buffer(self)

Frame(v) == [self |-> v, i |-> 1, sum |-> 0]
TopCall(v) == [kind |-> "Top", x |-> v]

RealBuilds == {b \in Builds : b.BTreeMap = 24 /\ b.IndexMap = 72 /\ b.Map \in {24, 72}}

InitT ==
    /\ \/ /\ root \in {c \in EmptyContainers : "Arc" \in {c.tyK, c.tyV}}
          /\ allocs \in Heaps
          /\ build = DefaultBuild
       \/ /\ root \in EmptyJson
          /\ allocs = NoLinks
          /\ build \in RealBuilds
    /\ context = {}
    /\ result = NoResult
    /\ removed = 0
    /\ Idle

\* the caller fills the value before it measures it
Fill(e) ==
    /\ tphase = "idle"
    /\ Editable(root)
    /\ Len(Inner(root).entries) < Inner(root).capacity
    /\ Len(Inner(root).entries) < MaxCap
    /\ root' = WithEntries(root, Append(Inner(root).entries, e))
    /\ UNCHANGED <<allocs, build, context, result, removed, stack, tctx, tphase, tsize>>

\* root.deep_size_of() is called: Context::new()
Start ==
    /\ tphase = "idle"
    /\ tphase' = "running"
    /\ tctx' = Context_new
    /\ stack' = <<Frame(TopCall(root))>>
    /\ UNCHANGED <<root, allocs, build, context, result, removed, tsize>>

\* the running call makes its next call
Call ==
    /\ tphase = "running"
    /\ LET f == stack[Len(stack)]
       IN  /\ f.i <= Len(callees(f.self))
           /\ LET c  == callees(f.self)[f.i]
                  cx == context_for_children(f.self, tctx)
              IN  IF Len(stack) >= StackLimit
                  THEN /\ tphase' = "overflow"
                       /\ UNCHANGED <<stack, tctx>>
                  ELSE IF c.kind = "Arc" /\ contains_arc(cx, c)
                  THEN \* returns 0 at once
                       /\ stack' = [stack EXCEPT ![Len(stack)].i = f.i + 1]
                       /\ tctx' = cx
                       /\ UNCHANGED tphase
                  ELSE IF c.kind = "JsonMap" /\ ~Map_assert_ne
                  THEN /\ tphase' = "panicked"
                       /\ UNCHANGED <<stack, tctx>>
                  ELSE /\ stack' = Append(stack, Frame(c))
                       /\ tctx' = IF c.kind = "Arc" THEN add_arc(cx, c) ELSE cx
                       /\ UNCHANGED tphase
    /\ UNCHANGED <<root, allocs, build, context, result, removed, tsize>>

\* the running call has made all its calls and returns its sum
Return ==
    /\ tphase = "running"
    /\ LET f == stack[Len(stack)]
           v == f.sum + own(f.self)
       IN  /\ f.i > Len(callees(f.self))
           /\ IF Len(stack) = 1
              THEN /\ tphase' = "returned"
                   /\ tsize' = v
                   /\ stack' = <<>>
              ELSE /\ stack' = [SubSeq(stack, 1, Len(stack) - 1)
                                  EXCEPT ![Len(stack) - 1].i = @ + 1,
                                         ![Len(stack) - 1].sum = @ + v]
                   /\ UNCHANGED <<tphase, tsize>>
    /\ UNCHANGED <<root, allocs, build, context, result, removed, tctx>>

Step == Call \/ Return

NextT ==
    \/ \E e \in InsertChoices(root) : Fill(e)
    \/ Start
    \/ Call
    \/ Return

SpecT == InitT /\ [][NextT]_vars /\ WF_vars(Step)

\* the stepwise measurement returns what the implementations compute
StepwiseAgrees ==
    tphase = "returned" =>
        /\ ~deep_size_of(root).panicked
        /\ tsize = deep_size_of(root).size
        /\ tctx = deep_size_of(root).ctx

----------------------------------------------------------------------------
(* What a measurement should count, stated on the value graph itself *)

RECURSIVE SetSum(_, _)
\* the sum of f[x] over the finite set S
SetSum(S, f) ==
    IF S = {} THEN 0
    ELSE LET x == CHOOSE y \in S : TRUE IN f[x] + SetSum(S \ {x}, f)

\* the values a value owns directly, in iteration order (none through an Arc)
Owned(v) ==
    CASE v.kind = "Value" -> IF v.tag = "Null" THEN <<>> ELSE <<v.x>>
      [] HasEntries(v)    -> Flatten(v.entries)
      [] OTHER            -> <<>>

RECURSIVE ArcsIn(_)
\* the allocations a value holds an Arc to itself, not through another Arc
ArcsIn(v) ==
    IF v.kind = "Arc" THEN {v.ptr}
    ELSE UNION {ArcsIn(Owned(v)[i]) : i \in 1..Len(Owned(v))}

RECURSIVE Closure(_, _)
\* the allocations reached from `found` along Arcs, never entering `blocked`
Closure(found, blocked) ==
    LET more == (UNION {ArcsIn(allocs[a].val) : a \in found}) \ (found \cup blocked)
    IN  IF more = {} THEN found ELSE Closure(found \cup more, blocked)

\* the allocations a measurement of v first reaches when c is already counted
NewlyReached(v, c) == Closure(ArcsIn(v) \ c, c)

RECURSIVE Direct(_)
\* heap bytes of v's own buffers and of what it owns other than through an Arc
Direct(v) ==
    CASE v.kind = "String" -> v.capacity
      [] v.kind = "Value"  -> IF v.tag = "Null" THEN 0 ELSE Direct(v.x)
      [] HasEntries(v)     ->
            buffer(v) + SumSeq([i \in 1..Len(Owned(v)) |-> Direct(Owned(v)[i])])
      [] OTHER             -> 0

\* the cost of one shared allocation: the pointee and what it owns directly
AllocCost(a) == allocs[a].size + Direct(allocs[a].val)

\* every newly reached allocation once, plus what v owns directly
Expected(v, c) ==
    Direct(v) + SetSum(NewlyReached(v, c), [a \in Addrs |-> AllocCost(a)])

Measured == result.op \in {"children", "deep_size_of"} /\ ~result.panicked
Footprint == IF result.op = "deep_size_of" THEN size_of_val(result.target) ELSE 0

----------------------------------------------------------------------------
(* C1. No double counting: a measurement adds every shared allocation it    *)
(* reaches exactly once, however many owners lead to it, and adds nothing   *)
(* for an allocation its Context already holds; the Context then holds      *)
(* what it held plus the allocations newly reached.                         *)
C1_NoDoubleCounting ==
    Measured =>
        /\ result.size = Footprint + Expected(result.target, result.ctx0)
        /\ result.ctx1 = result.ctx0 \cup NewlyReached(result.target, result.ctx0)

\* a container with two entries owning the same allocation was measured, the
\* allocation was new to the Context and links to one the Context already held
C1_Witness ==
    /\ result.op = "children"
    /\ result.target.kind \in {"Slab", "SmallVec", "HashMap", "IndexMap"}
    /\ \E i, j \in 1..Len(Owned(result.target)) :
          /\ i < j
          /\ Owned(result.target)[i].kind = "Arc"
          /\ Owned(result.target)[i] = Owned(result.target)[j]
          /\ Owned(result.target)[i].ptr \notin result.ctx0
          /\ ArcsIn(allocs[Owned(result.target)[i].ptr].val) \cap result.ctx0 # {}
    /\ result.size = buffer(result.target)
                     + SumSeq([i \in 1..Len(Owned(result.target)) |->
                                  Direct(Owned(result.target)[i])])
                     + AllocCost(Owned(result.target)[Len(Owned(result.target))].ptr)

----------------------------------------------------------------------------
(* C3 *)

RECURSIVE Without(_, _)
\* the sequence s with the first occurrence of x taken out
Without(s, x) ==
    IF s = <<>> THEN <<>>
    ELSE IF Head(s) = x THEN Tail(s) ELSE <<Head(s)>> \o Without(Tail(s), x)

RECURSIVE SeqMinus(_, _)
\* what is left of s once every element of t is taken out of it once
SeqMinus(s, t) == IF t = <<>> THEN s ELSE SeqMinus(Without(s, Head(t)), Tail(t))

\* the containers that grow on demand, holding a heap buffer
Growable(v) ==
    /\ v.kind \in ContainerKinds \ {"ArrayVec"}
    /\ v.kind = "SmallVec" => spilled(v)

\* result is the deep size of root as it was before the removals since
RemovedSince ==
    /\ removed > 0
    /\ result.op = "deep_size_of"
    /\ Growable(root)
    /\ result.target.kind = root.kind
    /\ result.target.capacity = root.capacity
    /\ Len(result.target.entries) = Len(root.entries) + removed

\* the values removed since the measurement
Gone == SeqMinus(Owned(result.target), Owned(root))
\* what the removed values report, each measured alone
GoneAlone ==
    SumSeq([i \in 1..Len(Gone) |-> deep_size_of_children(Gone[i], Context_new).size])

\* C3 as stated: after removals that leave the capacity unchanged the deep size
\* of a growable container is not smaller than it was before them.
C3_Original_NotSmaller ==
    RemovedSince => deep_size_of(root).size >= result.size

\* C3, amended: removals that leave the capacity unchanged leave the backing
\* buffer term unchanged; the deep size does not grow, and it shrinks by no
\* more than what the removed elements report as their own children sizes (so
\* it is not smaller when the removed elements own no heap memory).
C3_CapacityDrivesBuffer ==
    RemovedSince =>
        /\ buffer(root) = buffer(result.target)
        /\ deep_size_of(root).size <= result.size
        /\ deep_size_of(root).size >= result.size - GoneAlone

\* an element that owns heap memory was removed from a container with spare
\* capacity, and the deep size shrank by exactly what that element reports
C3_Witness ==
    /\ RemovedSince
    /\ root.capacity > Len(root.entries) + 1
    /\ GoneAlone > 0
    /\ deep_size_of(root).size = result.size - GoneAlone
    /\ buffer(root) > 0

----------------------------------------------------------------------------
(* C5. deep_size_of is the value's own footprint plus its children measured *)
(* in a Context of its own: whatever the caller's Context holds, it counts  *)
(* every allocation the value reaches.  deep_size_of_children with the      *)
(* caller's Context leaves out exactly the allocations an earlier call with *)
(* that Context was charged for.                                            *)
C5_FreshContextPerCall ==
    /\ (result.op = "deep_size_of" /\ ~result.panicked) =>
          /\ result.ctx0 = {}
          /\ result.size = size_of_val(result.target) + Expected(result.target, {})
    /\ (result.op = "children" /\ ~result.panicked) =>
          LET earlier == NewlyReached(result.target, {})
                            \ NewlyReached(result.target, result.ctx0)
          IN  /\ result.size = Expected(result.target, {})
                                - SetSum(earlier, [a \in Addrs |-> AllocCost(a)])
              /\ result.ctx0 \subseteq result.ctx1

\* deep_size_of was called while the caller's Context, filled by an earlier
\* deep_size_of_children call, held an allocation the measured value reaches
C5_Witness ==
    /\ result.op = "deep_size_of"
    /\ context \cap NewlyReached(result.target, {}) # {}
    /\ result.size = size_of_val(result.target) + Expected(result.target, {})
    /\ Expected(result.target, {}) > Expected(result.target, context)

----------------------------------------------------------------------------
(* C6. A SmallVec reports the sum of its elements' children sizes, plus     *)
(* capacity * size_of(Item) when it has spilled and nothing when it is      *)
(* inline; the elements are summed the same way in both states.             *)
C6_SmallVecBoundary ==
    (result.op = "children" /\ ~result.panicked /\ result.target.kind = "SmallVec") =>
        LET v     == result.target
            elems == fold(Flatten(v.entries), Ret(0, result.ctx0))
        IN  /\ result.size = elems.size
                  + (IF v.capacity > v.inline THEN v.capacity * size_of(T(v.tyV)) ELSE 0)
            /\ result.ctx1 = elems.ctx
            /\ elems.size = Expected(v, result.ctx0) - buffer(v)

\* an inline SmallVec whose element owns heap memory was measured
C6_Witness ==
    /\ result.op = "children"
    /\ result.target.kind = "SmallVec"
    /\ result.target.capacity = result.target.inline
    /\ Len(result.target.entries) = result.target.inline
    /\ result.size > 0

----------------------------------------------------------------------------
(* C7 *)

\* the sum of the children sizes of what v owns, from the Context c
ElemSum(v, c) == fold(Owned(v), Ret(0, c)).size

\* the size of one slot of the container's buffer
SlotSize(v) ==
    CASE v.kind = "SlotMap"  -> size_of(Tuple(<<T("u32"), T(v.tyV)>>))
      [] v.kind = "Slab"     -> size_of(MockEntry(T(v.tyV)))
      [] v.kind = "SmallVec" -> size_of(T(v.tyV))
      [] v.kind = "HashMap"  -> size_of(Tuple(<<T(v.tyK), T(v.tyV)>>))
      [] v.kind = "HashSet"  -> size_of(T(v.tyK))
      [] v.kind = "IndexMap" ->
            size_of(Tuple(<<T("usize"), T(v.tyK), T(v.tyV)>>)) + size_of(T("usize"))
      [] v.kind = "IndexSet" ->
            size_of(Tuple(<<T("usize"), T(v.tyK), T("unit")>>)) + size_of(T("usize"))
      [] v.kind = "JsonMap"  ->
            size_of(Tuple(<<T("usize"), T("String"), T("Value")>>)) + size_of(T("usize"))

\* a serde_json object was measured in a build where the Map is an IndexMap
IndexObjectMeasured ==
    /\ result.op = "children" /\ ~result.panicked
    /\ result.target.kind = "Value" /\ result.target.tag = "Object"
    /\ ~Map_is_btree

\* C7 as stated: the buffer term is the container's capacity times the slot
\* size on every path, the serde_json Map taken as an IndexMap included.
C7_Original_CapacityOnEveryPath ==
    /\ (result.op = "children" /\ ~result.panicked /\ Growable(result.target)) =>
          result.size = ElemSum(result.target, result.ctx0)
                        + result.target.capacity * SlotSize(result.target)
    /\ IndexObjectMeasured =>
          result.size = ElemSum(result.target.x, result.ctx0)
                        + result.target.x.capacity * SlotSize(result.target.x)

\* C7, amended: slab, slot map, hash map / set, index map / set and spilled
\* small-vector report capacity() times the slot size plus their children,
\* whatever their length; the serde_json Map taken as an IndexMap has no
\* capacity to read and reports (2 * len) times the slot size instead.
C7_CapacityWhereReadable ==
    /\ (result.op = "children" /\ ~result.panicked /\ Growable(result.target)) =>
          result.size = ElemSum(result.target, result.ctx0)
                        + result.target.capacity * SlotSize(result.target)
    /\ IndexObjectMeasured =>
          result.size = ElemSum(result.target.x, result.ctx0)
                        + (2 * Len(result.target.x.entries)) * SlotSize(result.target.x)

\* an object whose real capacity is not twice its length was measured in an
\* IndexMap build
C7_Witness ==
    /\ IndexObjectMeasured
    /\ Len(result.target.x.entries) > 0
    /\ result.target.x.capacity # 2 * Len(result.target.x.entries)
    /\ result.size > ElemSum(result.target.x, result.ctx0)

----------------------------------------------------------------------------
(* C8. Additivity: when no two elements of a container reach a common       *)
(* allocation, the container reports the sum of what each element reports   *)
(* measured alone plus its own buffer term, in whatever order the entries   *)
(* are visited.                                                             *)

Disjoint(v) ==
    \A i, j \in 1..Len(Owned(v)) :
        i < j => NewlyReached(Owned(v)[i], {}) \cap NewlyReached(Owned(v)[j], {}) = {}

Perms(n) == {f \in [1..n -> 1..n] : \A i, j \in 1..n : f[i] = f[j] => i = j}
Permuted(v, f) == [v EXCEPT !.entries = [i \in 1..Len(v.entries) |-> v.entries[f[i]]]]

C8_AdditiveWhenDisjoint ==
    (/\ result.op = "children" /\ ~result.panicked /\ result.ctx0 = {}
     /\ result.target.kind \in ContainerKinds
     /\ Disjoint(result.target)) =>
        LET v == result.target
        IN  /\ result.size =
                  SumSeq([i \in 1..Len(Owned(v)) |->
                             deep_size_of_children(Owned(v)[i], Context_new).size])
                  + buffer(v)
            /\ \A f \in Perms(Len(v.entries)) :
                  deep_size_of_children(Permuted(v, f), Context_new).size = result.size

\* a vector of two elements that own different allocations was measured
C8_Witness ==
    /\ result.op = "children" /\ result.ctx0 = {}
    /\ result.target.kind \in {"ArrayVec", "SmallVec"}
    /\ Len(result.target.entries) = 2
    /\ Disjoint(result.target)
    /\ \A i \in 1..2 :
          deep_size_of_children(Owned(result.target)[i], Context_new).size > 0
    /\ Owned(result.target)[1] # Owned(result.target)[2]
    /\ result.size > buffer(result.target)

----------------------------------------------------------------------------
(* C9. A type declared to own nothing (slot-map keys, ArrayString, the      *)
(* chrono types, the tokio sockets, actix::Addr, serde_json::Number)        *)
(* reports 0 for any content and any Context, and leaves the Context as it  *)
(* found it.                                                                *)

DeclaredZero(v) == (v.kind = "Known" /\ v.ty \in KnownExternal) \/ v.kind = "Addr"

C9_DeclaredZero ==
    /\ (result.op = "children" /\ DeclaredZero(result.target)) =>
          /\ result.size = 0
          /\ result.ctx1 = result.ctx0
          /\ ~result.panicked
    /\ (result.op = "deep_size_of" /\ DeclaredZero(result.target)) =>
          /\ result.size = size_of_val(result.target)
          /\ ~result.panicked

\* an Addr was measured with a Context that already held allocations
C9_Witness ==
    /\ result.op = "children"
    /\ result.target.kind = "Addr"
    /\ result.target.bits = 1
    /\ result.ctx0 # {}
    /\ result.size = 0

----------------------------------------------------------------------------
(* C10. A serde_json Value is measured by its variant: Null, Bool and       *)
(* Number report 0, String reports the capacity of its buffer, Array and    *)
(* Object report what the sequence and the map implementations report for   *)
(* the payload, with the same Context.                                      *)

C10_ValueDispatch ==
    (result.op = "children" /\ result.target.kind = "Value") =>
        LET x == result.target.x
            c == result.ctx0
            Same(r) == /\ result.size = r.size
                       /\ result.ctx1 = r.ctx
                       /\ result.panicked = r.panicked
        IN  CASE result.target.tag \in {"Null", "Bool", "Number"} ->
                    result.size = 0 /\ result.ctx1 = c /\ ~result.panicked
              [] result.target.tag = "String" ->
                    /\ Same(String_deep_size_of_children(x, c))
                    /\ result.ctx1 = c /\ ~result.panicked
              [] result.target.tag = "Array" ->
                    /\ Same(Vec_deep_size_of_children(x, c))
                    /\ ~result.panicked =>
                          result.size = ElemSum(x, c) + x.capacity * size_of(T("Value"))
              [] result.target.tag = "Object" ->
                    Same(Map_deep_size_of_children(x, c))

\* an array that holds a string was measured
C10_Witness ==
    /\ result.op = "children" /\ ~result.panicked
    /\ result.target.kind = "Value" /\ result.target.tag = "Array"
    /\ \E i \in 1..Len(Owned(result.target.x)) :
          /\ Owned(result.target.x)[i].tag = "String"
          /\ Owned(result.target.x)[i].x.capacity > 0
    /\ result.size > result.target.x.capacity * size_of(T("Value"))

----------------------------------------------------------------------------
(* C4. Measuring a serde_json Map halts exactly when BTreeMap<String,Value> *)
(* and IndexMap<String,Value> have the same size; otherwise the tree-map    *)
(* formula is used exactly when the Map has the size of the BTreeMap, and   *)
(* the index-map formula in every other case.                               *)

RECURSIVE VisitsMap(_)
VisitsMap(v) ==
    \/ v.kind = "JsonMap"
    \/ v.kind = "Value" /\ v.tag = "Object"
    \/ \E i \in 1..Len(Owned(v)) : VisitsMap(Owned(v)[i])

ObjectMeasured ==
    /\ result.op = "children"
    /\ result.target.kind = "Value" /\ result.target.tag = "Object"

C4_MapAssertionAndBranch ==
    /\ result.op # "none" =>
          (result.panicked <=>
              (VisitsMap(result.target) /\ build.BTreeMap = build.IndexMap))
    /\ (ObjectMeasured /\ ~result.panicked) =>
          LET x    == result.target.x
              n    == Len(x.entries)
              node == size_of(Tuple(<<T("usize"), T("u16"), T("u16"),
                                      Array(Tuple(<<T("String"), T("Value")>>), 2 * BTREE_B - 1),
                                      Array(T("usize"), BTREE_B)>>))
              slot == size_of(Tuple(<<T("usize"), T("String"), T("Value")>>)) + size_of(T("usize"))
          IN  result.size = ElemSum(x, result.ctx0)
                            + IF build.Map = build.BTreeMap
                              THEN (n * node * 2) \div ((2 * BTREE_B - 1) + (BTREE_B - 1))
                              ELSE 2 * n * slot

\* a non-empty object was measured where the two candidates have one size
C4_Witness ==
    /\ ObjectMeasured
    /\ result.panicked
    /\ Len(result.target.x.entries) > 0
    /\ build.BTreeMap = build.IndexMap

----------------------------------------------------------------------------
(* C2. Measuring a value whose shared allocations form a cycle ends: every  *)
(* started measurement returns, the call stack never outgrows its limit,    *)
(* and no call is made into an allocation the Context already holds.        *)

EntersKnownArc ==
    /\ Len(stack') = Len(stack) + 1
    /\ stack'[Len(stack')].self.kind = "Arc"
    /\ stack'[Len(stack')].self.ptr \in tctx

C2_CycleTerminates ==
    /\ (tphase = "running") ~> (tphase = "returned")
    /\ [](tphase # "overflow")
    /\ [][~EntersKnownArc]_vars

OnCycle(a) == a \in Closure(ArcsIn(allocs[a].val), {})

\* a measurement that walked into a cycle has returned
C2_Witness ==
    /\ tphase = "returned"
    /\ \E a \in tctx : OnCycle(a)
    /\ tsize = size_of_val(root) + Expected(root, {})

====
